---- MODULE Spec2Model ----
(***************************************************************************)
(* Model of financepy/market/curves/FinDiscountCurveZeros.py: the          *)
(* constructor of a discount curve from zero rates, its bump, __repr__     *)
(* and print methods.                                                      *)
(*                                                                         *)
(* Python objects are attribute dictionaries (functions from attribute     *)
(* names to values, an attribute that was never assigned is not in the     *)
(* domain).  Lists and numpy arrays live in a heap and are held by         *)
(* reference, so that aliasing and .copy() are visible.                    *)
(*                                                                         *)
(* Numbers.  Dates are day numbers, rates and bump sizes are integers (in  *)
(* percent), times are integers in units of 1/26280 year (26280 = 72*365   *)
(* = 73*360).  A discount factor is the positive real                      *)
(*     (1 + r/f)^(-f*t) * exp(e)                                           *)
(* kept in the normal form [f, r, t, e].                                   *)
(***************************************************************************)
EXTENDS Integers, Sequences, FiniteSets, TLC

MaxLen == 3
MaxDate == 2
MaxValuationDate == 1
MaxShift == 1
MaxCalls == 2

VARIABLES args, heap, self, pc, exc, returned, out, stdout, calls, last

vars == <<args, heap, self, pc, exc, returned, out, stdout, calls, last>>

-----------------------------------------------------------------------------
(* Enumerations and collaborators imported by the module.                  *)

FinFrequencyTypes == {"ANNUAL", "CONTINUOUS"}

FinDayCountTypes == {"ACT_365F", "ACT_360"}

FinInterpMethods == {"FLAT_FORWARDS", "LINEAR_ZERO_RATES"}

\* the zero rates a caller passes, in percent
ZeroRateInputs == {0, 1}

\* values a caller can pass as selectors, recognized or not
FrequencyInputs == FinFrequencyTypes \cup {"BAD_FREQUENCY"}

DayCountInputs == FinDayCountTypes \cup {"BAD_DAYCOUNT"}

NoError == "None"

AttributeError == "AttributeError: _discountFactors"

IndexError == "IndexError: list index out of range"

NonMonotonicMessage == "Times or dates are not sorted in increasing order"

\* year fraction between two dates under a day count convention
yearFrac(d1, d2, dayCountType) ==
    (d2 - d1) * (IF dayCountType = "ACT_360" THEN 73 ELSE 72)

timesFromDates(dt, valuationDate, dayCountType) ==
    [i \in 1..Len(dt) |-> yearFrac(valuationDate, dt[i], dayCountType)]

testMonotonicity(x) == \A i \in 2..Len(x) : x[i] > x[i-1]

One == [f |-> "ANNUAL", r |-> 0, t |-> 0, e |-> 0]

zeroToDf(r, t, frequencyType) ==
    IF frequencyType = "CONTINUOUS" THEN [One EXCEPT !.e = -(r * t)]
    ELSE IF r = 0 \/ t = 0 THEN One
    ELSE [f |-> frequencyType, r |-> r, t |-> t, e |-> 0]

\* x * np.exp(a)
timesExp(x, a) == [x EXCEPT !.e = @ + a]

labelToString(label, value) == label \o ": " \o value

\* the base class constructor, as called by bump
FinDiscountCurve(valuationDate, times, discountFactors, interpMethod) ==
    [k \in {"_valuationDate", "_times", "_discountFactors", "_interpMethod"} |->
        CASE k = "_valuationDate" -> valuationDate
          [] k = "_times" -> times
          [] k = "_discountFactors" -> discountFactors
          [] k = "_interpMethod" -> interpMethod]

-----------------------------------------------------------------------------
(* Attribute dictionaries.                                                 *)

NewObject == [k \in {} |-> 0]

SetAttr(o, name, v) ==
    [k \in DOMAIN o \cup {name} |-> IF k = name THEN v ELSE o[k]]

HasAttr(o, name) == name \in DOMAIN o

checkArgumentTypes(a) == TRUE

-----------------------------------------------------------------------------
(* FinDiscountCurveZeros                                                   *)

\* ValidateInputs with the frequency check moved before the length check
ValidateInputsSwapped(zeroDates, zeroRates, frequencyType, dayCountType) ==
    IF Len(zeroDates) = 0 THEN "Dates has zero length"
    ELSE IF frequencyType \notin FinFrequencyTypes
         THEN "Unknown Frequency type " \o frequencyType
    ELSE IF Len(zeroDates) # Len(zeroRates)
         THEN "Dates and Rates are not the same length"
    ELSE IF dayCountType \notin FinDayCountTypes
         THEN "Unknown Cap Floor DayCountRule type " \o dayCountType
    ELSE NoError

\* ValidateInputs with the length comparison left out
ValidateInputsNoLength(zeroDates, zeroRates, frequencyType, dayCountType) ==
    IF Len(zeroDates) = 0 THEN "Dates has zero length"
    ELSE IF frequencyType \notin FinFrequencyTypes
         THEN "Unknown Frequency type " \o frequencyType
    ELSE IF dayCountType \notin FinDayCountTypes
         THEN "Unknown Cap Floor DayCountRule type " \o dayCountType
    ELSE NoError

\* lines 53-64: the checks on the raw arguments, the first failing one
\* decides the FinError message
ValidateInputs(zeroDates, zeroRates, frequencyType, dayCountType) ==
    IF Len(zeroDates) = 0 THEN "Dates has zero length"
    ELSE IF Len(zeroDates) # Len(zeroRates)
         THEN "Dates and Rates are not the same length"
    ELSE IF frequencyType \notin FinFrequencyTypes
         THEN "Unknown Frequency type " \o frequencyType
    ELSE IF dayCountType \notin FinDayCountTypes
         THEN "Unknown Cap Floor DayCountRule type " \o dayCountType
    ELSE NoError

\* lines 66-73: the assignments to self; the times array is a new array,
\* the dates and rates are the caller's lists
AssignFields(h, o, a) ==
    LET times == timesFromDates(h[a.zeroDates], a.valuationDate, a.dayCountType)
        h1 == Append(h, times)
        o1 == SetAttr(o, "_valuationDate", a.valuationDate)
        o2 == SetAttr(o1, "_frequencyType", a.frequencyType)
        o3 == SetAttr(o2, "_dayCountType", a.dayCountType)
        o4 == SetAttr(o3, "_interpMethod", a.interpMethod)
        o5 == SetAttr(o4, "_times", Len(h1))
        o6 == SetAttr(o5, "_zeroRates", a.zeroRates)
        o7 == SetAttr(o6, "_zeroDates", a.zeroDates)
    IN  [self |-> o7, heap |-> h1]

\* TimesRejected that lets equal adjacent times through
TimesRejectedNonStrict(times) == \E i \in 2..Len(times) : times[i] < times[i-1]

\* lines 75-76
TimesRejected(times) == testMonotonicity(times) = FALSE

\* lines 82-96
buildCurvePoints(h, o) ==
    LET times == h[o["_times"]]
        rates == h[o["_zeroRates"]]
        numTimes == Len(times)
    IN  IF numTimes > Len(rates)
        THEN [exc |-> IndexError, self |-> o, heap |-> h]
        ELSE LET dfValues == [i \in 1..numTimes |->
                                 zeroToDf(rates[i], times[i], o["_frequencyType"])]
                 h1 == Append(h, dfValues)
             IN  [exc |-> NoError,
                  self |-> SetAttr(o, "_dfValues", Len(h1)),
                  heap |-> h1]

\* init with the curve points built before the times are tested
initBuildFirst(h, o, a) ==
    LET e == ValidateInputs(h[a.zeroDates], h[a.zeroRates],
                            a.frequencyType, a.dayCountType)
    IN  IF e # NoError
        THEN [exc |-> e, self |-> o, heap |-> h]
        ELSE LET s == AssignFields(h, o, a)
                 b == buildCurvePoints(s.heap, s.self)
             IN  IF TimesRejected(s.heap[s.self["_times"]])
                 THEN [exc |-> NonMonotonicMessage,
                       self |-> b.self, heap |-> b.heap]
                 ELSE b

\* lines 50-78
init(h, o, a) ==
    LET e == ValidateInputs(h[a.zeroDates], h[a.zeroRates],
                            a.frequencyType, a.dayCountType)
    IN  IF ~checkArgumentTypes(a)
        THEN [exc |-> "Argument Type Error", self |-> o, heap |-> h]
        ELSE IF e # NoError
        THEN [exc |-> e, self |-> o, heap |-> h]
        ELSE LET s == AssignFields(h, o, a)
             IN  IF TimesRejected(s.heap[s.self["_times"]])
                 THEN [exc |-> NonMonotonicMessage,
                       self |-> s.self, heap |-> s.heap]
                 ELSE buildCurvePoints(s.heap, s.self)

\* lines 106-109: the loop scaling the array discountFactors in place
scale(h, n, times, discountFactors, bumpSize) ==
    [h EXCEPT ![discountFactors] =
        [i \in 1..Len(@) |->
            IF i <= n THEN timesExp(@[i], -(bumpSize * h[times][i])) ELSE @[i]]]

\* bump reading the array the constructor filled, without the copies
bumpInPlace(h, o, bumpSize) ==
    LET times == o["_times"]
        discountFactors == o["_dfValues"]
        n == Len(h[o["_times"]])
        h3 == scale(h, n, times, discountFactors, bumpSize)
        discCurve == FinDiscountCurve(o["_valuationDate"], times,
                                      discountFactors, o["_interpMethod"])
    IN  [exc |-> NoError, ret |-> <<discCurve>>, heap |-> h3]

\* lines 100-116; a raise frees the local copies
bump(h, o, bumpSize) ==
    LET h1 == Append(h, h[o["_times"]])
        times == Len(h1)
    IN  IF ~HasAttr(o, "_discountFactors")
        THEN [exc |-> AttributeError, ret |-> <<>>, heap |-> h]
        ELSE LET h2 == Append(h1, h1[o["_discountFactors"]])
                 discountFactors == Len(h2)
                 n == Len(h2[o["_times"]])
                 h3 == scale(h2, n, times, discountFactors, bumpSize)
                 discCurve == FinDiscountCurve(o["_valuationDate"], times,
                                               discountFactors, o["_interpMethod"])
             IN  [exc |-> NoError, ret |-> <<discCurve>>, heap |-> h3]

\* repr showing the derived times in place of the zero dates
reprTimes(h, o) ==
    LET numPoints == Len(h[o["_times"]])
        times == h[o["_times"]]
        zeroRates == h[o["_zeroRates"]]
    IN  <<"FinDiscountCurveZeros">>
        \o <<labelToString("DATES", "ZERO RATES")>>
        \o [i \in 1..numPoints |->
               labelToString(ToString(times[i]), ToString(zeroRates[i]))]
        \o <<labelToString("FREQUENCY", o["_frequencyType"])>>

\* lines 120-128, one element per line of the text
repr(h, o) ==
    LET numPoints == Len(h[o["_times"]])
        zeroDates == h[o["_zeroDates"]]
        zeroRates == h[o["_zeroRates"]]
    IN  <<"FinDiscountCurveZeros">>
        \o <<labelToString("DATES", "ZERO RATES")>>
        \o [i \in 1..numPoints |->
               labelToString(ToString(zeroDates[i]), ToString(zeroRates[i]))]
        \o <<labelToString("FREQUENCY", o["_frequencyType"])>>

-----------------------------------------------------------------------------
(* The state machine: a caller holding its arguments constructs one curve  *)
(* and, when the constructor returned, calls its methods.                  *)

SeqsUpTo(S, n) == UNION {[1..k -> S] : k \in 0..n}

Init ==
    /\ \E v \in 0..MaxValuationDate,
          zd \in SeqsUpTo(0..MaxDate, MaxLen),
          zr \in SeqsUpTo(ZeroRateInputs, MaxLen),
          f \in FrequencyInputs, dc \in DayCountInputs, im \in FinInterpMethods :
            /\ args = [valuationDate |-> v, zeroDates |-> 1, zeroRates |-> 2,
                       frequencyType |-> f, dayCountType |-> dc,
                       interpMethod |-> im]
            /\ heap = <<zd, zr>>
    /\ self = NewObject
    /\ pc = "new"
    /\ exc = NoError
    /\ returned = <<>>
    /\ out = <<>>
    /\ stdout = <<>>
    /\ calls = 0
    /\ last = [op |-> "none", arg |-> 0]

Construct ==
    /\ pc = "new"
    /\ LET r == init(heap, self, args)
       IN  /\ self' = r.self
           /\ heap' = r.heap
           /\ exc' = r.exc
           /\ pc' = IF r.exc = NoError THEN "built" ELSE "failed"
    /\ last' = [op |-> "init", arg |-> 0]
    /\ UNCHANGED <<args, returned, out, stdout, calls>>

Bump ==
    /\ pc = "built"
    /\ calls < MaxCalls
    /\ \E bumpSize \in (-MaxShift)..MaxShift :
        LET r == bump(heap, self, bumpSize)
        IN  /\ heap' = r.heap
            /\ exc' = r.exc
            /\ returned' = returned \o r.ret
            /\ last' = [op |-> "bump", arg |-> bumpSize]
    /\ calls' = calls + 1
    /\ UNCHANGED <<args, self, pc, out, stdout>>

Repr ==
    /\ pc = "built"
    /\ calls < MaxCalls
    /\ out' = repr(heap, self)
    /\ exc' = NoError
    /\ last' = [op |-> "repr", arg |-> 0]
    /\ calls' = calls + 1
    /\ UNCHANGED <<args, heap, self, pc, returned, stdout>>

\* lines 132-134
print ==
    /\ pc = "built"
    /\ calls < MaxCalls
    /\ stdout' = Append(stdout, repr(heap, self))
    /\ exc' = NoError
    /\ last' = [op |-> "print", arg |-> 0]
    /\ calls' = calls + 1
    /\ UNCHANGED <<args, heap, self, pc, returned, out>>

Next == Construct \/ Bump \/ Repr \/ print

Spec == Init /\ [][Next]_vars

-----------------------------------------------------------------------------
(* The properties.                                                         *)

\* the caller's arguments
inDates == heap[args.zeroDates]

inRates == heap[args.zeroRates]

Built == pc = "built"

\* the arrays of the constructed curve
curveTimes == heap[self["_times"]]

curveDfValues == heap[self["_dfValues"]]

StrictlyIncreasing(t) == \A i \in 1..(Len(t) - 1) : t[i+1] > t[i]

\* the year fractions the arguments give
DerivedTimes == timesFromDates(inDates, args.valuationDate, args.dayCountType)

SelectorsRecognized ==
    /\ args.frequencyType \in FinFrequencyTypes
    /\ args.dayCountType \in FinDayCountTypes

\* the error kind a FinError message stands for
ErrorKind(msg) ==
    CASE msg = "Dates has zero length" -> "EmptyInputError"
      [] msg = "Dates and Rates are not the same length" -> "LengthMismatchError"
      [] msg \in {"Unknown Frequency type " \o f : f \in FrequencyInputs}
            -> "UnknownConventionError"
      [] msg \in {"Unknown Cap Floor DayCountRule type " \o d : d \in DayCountInputs}
            -> "UnknownConventionError"
      [] msg = NonMonotonicMessage -> "NonMonotonicTimeError"
      [] msg = NoError -> "none"
      [] OTHER -> "other"

\* the first check, in the order 1, 2, 3, 5, that the arguments fail
FirstFailure ==
    IF Len(inDates) = 0 THEN "EmptyInputError"
    ELSE IF Len(inDates) # Len(inRates) THEN "LengthMismatchError"
    ELSE IF ~SelectorsRecognized THEN "UnknownConventionError"
    ELSE IF ~StrictlyIncreasing(DerivedTimes) THEN "NonMonotonicTimeError"
    ELSE "none"

\* C1: bump(shift) on a constructed curve completes and returns a curve over
\* the same times, with the source's valuation date and interpolation
\* method, whose i-th discount factor is the constructed discount factor i
\* times exp(-shift * times[i]).
C1_BumpScalesDiscountFactors ==
    last.op = "bump" =>
        /\ exc = NoError
        /\ Len(returned) > 0
        /\ LET c == returned[Len(returned)]
           IN  /\ heap[c["_times"]] = curveTimes
               /\ c["_valuationDate"] = self["_valuationDate"]
               /\ c["_interpMethod"] = self["_interpMethod"]
               /\ Len(heap[c["_discountFactors"]]) = Len(curveTimes)
               /\ \A i \in 1..Len(curveTimes) :
                     heap[c["_discountFactors"]][i] =
                        timesExp(zeroToDf(inRates[i], curveTimes[i],
                                          args.frequencyType),
                                 -(last.arg * curveTimes[i]))

C3_MonotonicRejection ==
    (/\ last.op # "none"
     /\ Len(inDates) > 0
     /\ Len(inDates) = Len(inRates)
     /\ SelectorsRecognized)
    => ((\E i \in 1..(Len(DerivedTimes) - 1) : DerivedTimes[i+1] <= DerivedTimes[i])
          <=> (pc = "failed" /\ exc = NonMonotonicMessage))

C3_Witness ==
    /\ pc = "failed"
    /\ exc = NonMonotonicMessage
    /\ Len(inDates) = 2
    /\ inDates[1] = inDates[2]

\* what the source curve holds
SourceView ==
    [self |-> self,
     times |-> curveTimes,
     discountFactors |-> curveDfValues,
     zeroDates |-> heap[self["_zeroDates"]],
     zeroRates |-> heap[self["_zeroRates"]]]

SourceArrays ==
    {self["_times"], self["_dfValues"], self["_zeroDates"], self["_zeroRates"]}

NoSharing ==
    \A k \in 1..Len(returned) :
        /\ returned[k]["_times"] \notin SourceArrays
        /\ returned[k]["_discountFactors"] \notin SourceArrays

C5_NoFieldPopulated == pc = "failed" => DOMAIN self = {}

\* C5: a construction that fails at the empty, length or convention check has
\* populated no field; one that fails at the times check has assigned the
\* valuation date, conventions, times, zero dates and zero rates but no
\* discount factors; in both cases no curve reaches the caller.
C5_FailedConstruction ==
    pc = "failed" =>
        /\ exc # NonMonotonicMessage => DOMAIN self = {}
        /\ exc = NonMonotonicMessage =>
              DOMAIN self = {"_valuationDate", "_frequencyType", "_dayCountType",
                             "_interpMethod", "_times", "_zeroRates", "_zeroDates"}
        /\ calls = 0
        /\ returned = <<>>
        /\ out = <<>>

C5_Witness ==
    /\ pc = "failed"
    /\ exc = NonMonotonicMessage
    /\ HasAttr(self, "_times")

\* C6: a constructed curve has as many times as discount factors, zero dates
\* and zero rates, at least one, and strictly increasing times, also after
\* bump and rendering calls.
C6_CurveInvariant ==
    Built =>
        /\ Len(curveTimes) > 0
        /\ Len(curveTimes) = Len(curveDfValues)
        /\ Len(curveTimes) = Len(heap[self["_zeroDates"]])
        /\ Len(curveTimes) = Len(heap[self["_zeroRates"]])
        /\ StrictlyIncreasing(curveTimes)

C6_Witness ==
    /\ Built
    /\ Len(curveTimes) >= 2
    /\ calls = 2
    /\ last.op = "repr"
    /\ exc = NoError

\* C7: a constructed curve has times[0] >= 0: its valuation date is not after
\* its first zero date.
C7_FirstTimeNonNegative ==
    Built =>
        /\ curveTimes[1] >= 0
        /\ args.valuationDate <= inDates[1]

\* C8: bump(0) returns a curve with the source's times and discount factors.
C8_ZeroBumpIdentity ==
    (last.op = "bump" /\ last.arg = 0) =>
        /\ Len(returned) > 0
        /\ heap[returned[Len(returned)]["_times"]] = curveTimes
        /\ heap[returned[Len(returned)]["_discountFactors"]] = curveDfValues

ObservationLines ==
    [i \in 1..Len(inDates) |-> ToString(inDates[i]) \o ": " \o ToString(inRates[i])]

\* C9 as stated: the text is the type name, the observation lines and the
\* frequency label, and no other line.
C9_OnlyObservationLines ==
    last.op = "repr" =>
        out = <<"FinDiscountCurveZeros">> \o ObservationLines
              \o <<"FREQUENCY: " \o args.frequencyType>>

\* C9: the text is the type name, a heading line DATES: ZERO RATES, one line
\* per observation with the zero date and zero rate passed in, in input
\* order, then the frequency label; rendering changes nothing of the curve.
C9_Rendering ==
    [][last'.op = "repr" =>
          /\ out' = <<"FinDiscountCurveZeros", "DATES: ZERO RATES">>
                    \o ObservationLines
                    \o <<"FREQUENCY: " \o args.frequencyType>>
          /\ Len(out') = Len(inDates) + 3
          /\ <<args, heap, self, pc, returned>>' = <<args, heap, self, pc, returned>>
      ]_vars

C9_Witness ==
    /\ last.op = "repr"
    /\ Len(inDates) = 2
    /\ inRates[1] # inRates[2]
    /\ Len(out) = 5

\* C10: a successful construction fills the times and the discount-factor
\* array that bump reads, entry i being the rate converter's result for
\* (zeroRates[i], times[i], frequencyType), and leaves the caller's lists alone.
C10_ConstructionPopulates ==
    (Built /\ last.op = "init") =>
        /\ HasAttr(self, "_times")
        /\ curveTimes = DerivedTimes
        /\ HasAttr(self, "_discountFactors")
        /\ heap[self["_discountFactors"]] =
              [i \in 1..Len(curveTimes) |->
                  zeroToDf(inRates[i], curveTimes[i], args.frequencyType)]

====
